---- MODULE Spec2Model ----
(***************************************************************************)
(* A model of allockit: the page provider of allockit_page.h               *)
(* (ak_page_requestPages / ak_page_returnPages over mmap/munmap or         *)
(* VirtualAlloc/VirtualFree) and the capability-dispatch macros of         *)
(* allockit.h (ak_alloc / ak_resize / ak_free).                            *)
(*                                                                         *)
(* Addresses and magnitudes are size_t values of a scaled-down width:      *)
(* the address space has NumPages OS pages of PageBytes bytes, and         *)
(* SIZE_MAX is the largest value of the type.  Arithmetic on size_t wraps  *)
(* modulo SIZE_MAX + 1.                                                    *)
(***************************************************************************)
EXTENDS Integers, FiniteSets, Sequences, TLC

\* ---------------------------------------------------------------- bounds
PageBytes == 2
NumPages  == 3
MaxChunks == 2
NumAllocs == 2
MaxArg    == 2

AddrSpace == NumPages * PageBytes
SIZE_MAX  == AddrSpace - 1
Null      == 0
MAP_FAILED == SIZE_MAX

Magnitude == 0..SIZE_MAX
Pages     == 0..(NumPages - 1)
Slots     == 1..MaxChunks
Platforms == {"linux", "windows"}

\* the arguments the callers of the model pass: a failed page-size query (0),
\* a size below the OS page, the OS page size and the largest magnitude;
\* no pages, one, two and the largest count; no hint, an aligned hint, an
\* unaligned one and a second aligned one
PageSizes == {0, 1, PageBytes, SIZE_MAX}
Counts    == {0, 1, 2, SIZE_MAX}
Hints     == {Null, PageBytes, PageBytes + 1, 2 * PageBytes}

VARIABLES platform, mapped, regions, chunks, own, last, dispatch

vars == <<platform, mapped, regions, chunks, own, last, dispatch>>

\* ------------------------------------------------------- size_t arithmetic
Mul(a, b) == (a * b) % (SIZE_MAX + 1)

\* the pages that hold a byte of [addr, addr + len)
PagesCovering(addr, len) ==
  {p \in Pages : p * PageBytes < addr + len /\ (p + 1) * PageBytes > addr}

PagesFrom(base, n) == {p \in Pages : base <= p /\ p < base + n}

PageCount(len) == (len + PageBytes - 1) \div PageBytes

ZeroChunk == [start |-> Null, count |-> 0]

\* ----------------------------------------------------------- OS: Linux
\* mmap(addr, length, PROT_READ|PROT_WRITE, MAP_ANONYMOUS|MAP_PRIVATE[|MAP_FIXED])
\* Every outcome the kernel can produce: failure is always possible (ENOMEM);
\* a zero length is EINVAL; MAP_FIXED needs a page-aligned address inside the
\* address space and REPLACES whatever is mapped there; without a hint the
\* kernel picks any free range that does not contain page 0.
mmap(m, addr, length) ==
  {[ok |-> FALSE, ret |-> MAP_FAILED, mapped |-> m, regions |-> {}]}
  \cup
  (IF length = 0 THEN {}
   ELSE IF addr # Null
   THEN IF addr % PageBytes = 0 /\ addr + length <= AddrSpace
        THEN {[ok |-> TRUE, ret |-> addr,
               mapped |-> m \cup PagesCovering(addr, length), regions |-> {}]}
        ELSE {}
   ELSE {[ok |-> TRUE, ret |-> b * PageBytes,
          mapped |-> m \cup PagesFrom(b, PageCount(length)), regions |-> {}] :
           b \in {c \in Pages : /\ c >= 1
                                /\ c + PageCount(length) <= NumPages
                                /\ PagesFrom(c, PageCount(length)) \cap m = {}}})

\* munmap(addr, length): -1 (EINVAL) for an unaligned address, a zero length
\* or a range outside the address space; otherwise 0, also when nothing is
\* mapped in the range.
munmap(m, addr, length) ==
  IF addr % PageBytes # 0 \/ length = 0 \/ addr + length > AddrSpace
  THEN [ret |-> -1, mapped |-> m, regions |-> {}]
  ELSE [ret |-> 0, mapped |-> m \ PagesCovering(addr, length), regions |-> {}]

\* --------------------------------------------------------- OS: Windows
\* VirtualAlloc(addr, length, MEM_COMMIT|MEM_RESERVE, PAGE_READWRITE)
\* returns NULL on failure (always possible).  A zero size fails.  A given
\* address is rounded down to the allocation granularity (one page here) and
\* the call fails when any page of the range is already reserved.
VirtualAlloc(m, rs, addr, length) ==
  {[ok |-> FALSE, ret |-> Null, mapped |-> m, regions |-> rs]}
  \cup
  (IF length = 0 THEN {}
   ELSE IF addr # Null
   THEN IF /\ addr + length <= AddrSpace
           /\ addr \div PageBytes >= 1
           /\ PagesCovering(addr, length) \cap m = {}
        THEN {[ok |-> TRUE, ret |-> (addr \div PageBytes) * PageBytes,
               mapped |-> m \cup PagesCovering(addr, length),
               regions |-> rs \cup {[base |-> addr \div PageBytes,
                                     n |-> Cardinality(PagesCovering(addr, length))]}]}
        ELSE {}
   ELSE {[ok |-> TRUE, ret |-> b * PageBytes,
          mapped |-> m \cup PagesFrom(b, PageCount(length)),
          regions |-> rs \cup {[base |-> b, n |-> PageCount(length)]}] :
           b \in {c \in Pages : /\ c >= 1
                                /\ c + PageCount(length) <= NumPages
                                /\ PagesFrom(c, PageCount(length)) \cap m = {}}})

\* VirtualFree(addr, 0, MEM_RELEASE): succeeds only for the base address of a
\* region reserved by VirtualAlloc, and releases the whole region.
VirtualFree(m, rs, addr) ==
  IF \E r \in rs : r.base * PageBytes = addr /\ addr # Null
  THEN LET r == CHOOSE x \in rs : x.base * PageBytes = addr
       IN [ret |-> 1, mapped |-> m \ PagesFrom(r.base, r.n), regions |-> rs \ {r}]
  ELSE [ret |-> 0, mapped |-> m, regions |-> rs]

\* ------------------------------------------------- ak_page_requestPages
\* a variant of the overflow check that compares with >= instead of >
Overflows_OffByOne(page_size, count) ==
  count # 0 /\ page_size >= SIZE_MAX \div count

\* the overflow check of line 94: count && page_size > SIZE_MAX/count
Overflows(page_size, count) ==
  count # 0 /\ page_size > SIZE_MAX \div count

\* the OS reservation call of the build's platform branch (lines 99-112)
OsReserve(pf, m, rs, addr, length) ==
  IF pf = "linux" THEN mmap(m, addr, length)
  ELSE VirtualAlloc(m, rs, addr, length)

\* a variant that stores the OS result without testing it for MAP_FAILED
RequestResult_Unchecked(pf, m_addr, count) ==
  [start |-> m_addr, count |-> count]

\* lines 110-116: only the mmap branch tests the OS result for failure
RequestResult(pf, m_addr, count) ==
  IF pf = "linux" /\ m_addr = MAP_FAILED
  THEN ZeroChunk
  ELSE [start |-> m_addr, count |-> count]

NoCall == [fn |-> "none", addr |-> Null, length |-> 0, ok |-> FALSE]

NoOp == [op |-> "none", slot |-> 0, page_size |-> 0, addr |-> Null,
         count |-> 0, oscall |-> NoCall, res |-> 0, prior |-> ZeroChunk,
         before |-> {}, roundtrip |-> FALSE, rtBefore |-> {},
         wasReleased |-> FALSE]

\* chunks[k] = ak_page_requestPages(page_size, addr, count)
ak_page_requestPages(k, page_size, addr, count) ==
  IF Overflows(page_size, count)
  THEN /\ chunks' = [chunks EXCEPT ![k] = ZeroChunk]
       /\ own' = [own EXCEPT ![k] = [state |-> "none", page_size |-> 0]]
       /\ last' = [NoOp EXCEPT !.op = "request", !.slot = k,
                               !.page_size = page_size, !.addr = addr,
                               !.count = count, !.before = mapped]
       /\ UNCHANGED <<platform, mapped, regions, dispatch>>
  ELSE LET length == Mul(page_size, count) IN
       \E o \in OsReserve(platform, mapped, regions, addr, length) :
          /\ mapped' = o.mapped
          /\ regions' = o.regions
          /\ chunks' = [chunks EXCEPT ![k] = RequestResult(platform, o.ret, count)]
          /\ own' = [own EXCEPT ![k] =
                       IF o.ok THEN [state |-> "live", page_size |-> page_size]
                       ELSE [state |-> "none", page_size |-> 0]]
          /\ last' = [NoOp EXCEPT !.op = "request", !.slot = k,
                                  !.page_size = page_size, !.addr = addr,
                                  !.count = count, !.before = mapped,
                                  !.oscall = [fn |-> IF platform = "linux"
                                                     THEN "mmap" ELSE "VirtualAlloc",
                                              addr |-> addr, length |-> length,
                                              ok |-> o.ok]]
          /\ UNCHANGED <<platform, dispatch>>

\* -------------------------------------------------- ak_page_returnPages
\* the OS release call of the build's platform branch (lines 124-131),
\* with res as the code computes it
OsRelease(pf, m, rs, page_size, pages) ==
  IF pf = "linux"
  THEN LET length == Mul(page_size, pages.count)
           r == munmap(m, pages.start, length)
       IN [res |-> r.ret + 1, mapped |-> r.mapped, regions |-> rs,
           call |-> [fn |-> "munmap", addr |-> pages.start,
                     length |-> length, ok |-> r.ret = 0]]
  ELSE LET r == VirtualFree(m, rs, pages.start)
       IN [res |-> r.ret, mapped |-> r.mapped, regions |-> r.regions,
           call |-> [fn |-> "VirtualFree", addr |-> pages.start,
                     length |-> 0, ok |-> r.ret # 0]]

\* a variant that clears start whatever the OS answered
ReturnedChunk_Always(res, pages) ==
  [pages EXCEPT !.start = Null]

\* lines 133-134: if (res) pages->start = NULL;
ReturnedChunk(res, pages) ==
  IF res # 0 THEN [pages EXCEPT !.start = Null] ELSE pages

\* ak_page_returnPages(page_size, &chunks[k])
ak_page_returnPages(k, page_size) ==
  LET r == OsRelease(platform, mapped, regions, page_size, chunks[k])
      rt == /\ last.op = "request" /\ last.oscall.ok
            /\ last.slot = k /\ last.page_size = page_size
  IN /\ mapped' = r.mapped
     /\ regions' = r.regions
     /\ chunks' = [chunks EXCEPT ![k] = ReturnedChunk(r.res, chunks[k])]
     /\ own' = [own EXCEPT ![k].state =
                  IF r.res # 0 /\ own[k].state = "live" THEN "released"
                  ELSE own[k].state]
     /\ last' = [NoOp EXCEPT !.op = "return", !.slot = k,
                             !.page_size = page_size, !.oscall = r.call,
                             !.res = r.res, !.prior = chunks[k],
                             !.before = mapped, !.roundtrip = rt,
                             !.rtBefore = IF rt THEN last.before ELSE {},
                             !.wasReleased = (own[k].state = "released")]
     /\ UNCHANGED <<platform, dispatch>>

\* ---------------------------------------------------------- allockit.h
Instances == 1..NumAllocs
Args      == 1..MaxArg

\* struct AkAlloc: the three function pointers of instance i
AkAlloc(i) == [alloc  |-> [inst |-> i, cap |-> "alloc"],
               resize |-> [inst |-> i, cap |-> "resize"],
               free   |-> [inst |-> i, cap |-> "free"]]

NoDispatch == [macro |-> "none", pAlloc |-> 0, fn |-> [inst |-> 0, cap |-> "none"],
               self |-> 0, addr |-> Null, size |-> 0, align |-> 0, count |-> 0]

Types == {"char", "int"}
sizeof(T)  == IF T = "char" THEN 1 ELSE 4
alignof(T) == IF T = "char" THEN 1 ELSE 4

\* #define ak_alloc(pAlloc, Size, Align, Count)
\*   (((pAlloc)->alloc)((pAlloc), Size, Align, Count))
ak_alloc(pAlloc, Size, Align, Count) ==
  [NoDispatch EXCEPT !.macro = "ak_alloc", !.pAlloc = pAlloc,
                     !.fn = AkAlloc(pAlloc).alloc, !.self = pAlloc,
                     !.size = Size, !.align = Align, !.count = Count]

\* #define ak_alloc(pAlloc, T, Count)
\*   ak_alloc(pAlloc, sizeof(T), ALLOCKIT_ALIGNOF(T), Count)
\* The header defines the typed form under the same macro name as the
\* explicit form; each form is modelled by its own replacement list, the
\* typed one expanding to the explicit one as the header intends.
ak_alloc_T(pAlloc, T, Count) ==
  ak_alloc(pAlloc, sizeof(T), alignof(T), Count)

\* #define ak_resize(pAlloc, Addr, Size, Align, Count)
\*   (((Alloc)->resize)((pAlloc), Addr, Size, Align, Count))
\* Alloc is not a macro parameter: it is whatever the identifier Alloc names
\* in the scope of the call.
ak_resize(Alloc, pAlloc, Addr, Size, Align, Count) ==
  [NoDispatch EXCEPT !.macro = "ak_resize", !.pAlloc = pAlloc,
                     !.fn = AkAlloc(Alloc).resize, !.self = pAlloc,
                     !.addr = Addr, !.size = Size, !.align = Align,
                     !.count = Count]

\* #define ak_resize(pAlloc, Addr, T, Count)
\*   ak_resize(pAlloc, Addr, sizeof(T), ALLOCKIT_ALIGNOF(T), Count)
ak_resize_T(Alloc, pAlloc, Addr, T, Count) ==
  ak_resize(Alloc, pAlloc, Addr, sizeof(T), alignof(T), Count)

\* #define ak_free(pAlloc, Addr) (((Alloc)->free)((pAlloc), Addr))
ak_free(Alloc, pAlloc, Addr) ==
  [NoDispatch EXCEPT !.macro = "ak_free", !.pAlloc = pAlloc,
                     !.fn = AkAlloc(Alloc).free, !.self = pAlloc,
                     !.addr = Addr]

CallAlloc ==
  \E p \in Instances, s \in Args, a \in Args, c \in Args :
    /\ dispatch' = [call |-> ak_alloc(p, s, a, c),
                    given |-> [addr |-> Null, size |-> s, align |-> a, count |-> c]]
    /\ UNCHANGED <<platform, mapped, regions, chunks, own, last>>

CallAllocT ==
  \E p \in Instances, T \in Types, c \in Args :
    /\ dispatch' = [call |-> ak_alloc_T(p, T, c),
                    given |-> [addr |-> Null, size |-> sizeof(T),
                               align |-> alignof(T), count |-> c]]
    /\ UNCHANGED <<platform, mapped, regions, chunks, own, last>>

CallResize ==
  \E Alloc \in Instances, p \in Instances, ad \in Args, s \in Args,
     a \in Args, c \in Args :
    /\ dispatch' = [call |-> ak_resize(Alloc, p, ad, s, a, c),
                    given |-> [addr |-> ad, size |-> s, align |-> a, count |-> c]]
    /\ UNCHANGED <<platform, mapped, regions, chunks, own, last>>

CallResizeT ==
  \E Alloc \in Instances, p \in Instances, ad \in Args, T \in Types, c \in Args :
    /\ dispatch' = [call |-> ak_resize_T(Alloc, p, ad, T, c),
                    given |-> [addr |-> ad, size |-> sizeof(T),
                               align |-> alignof(T), count |-> c]]
    /\ UNCHANGED <<platform, mapped, regions, chunks, own, last>>

CallFree ==
  \E Alloc \in Instances, p \in Instances, ad \in Args :
    /\ dispatch' = [call |-> ak_free(Alloc, p, ad),
                    given |-> [addr |-> ad, size |-> 0, align |-> 0, count |-> 0]]
    /\ UNCHANGED <<platform, mapped, regions, chunks, own, last>>

\* ------------------------------------------------------ specifications
Init ==
  /\ platform \in Platforms
  /\ mapped = {}
  /\ regions = {}
  /\ chunks = [k \in Slots |-> ZeroChunk]
  /\ own = [k \in Slots |-> [state |-> "none", page_size |-> 0]]
  /\ last = NoOp
  /\ dispatch = [call |-> NoDispatch,
                 given |-> [addr |-> Null, size |-> 0, align |-> 0, count |-> 0]]

\* the caller stores the result in its first chunk variable that holds no
\* live reservation (the variables are interchangeable)
RequestPages ==
  \E k \in Slots, page_size \in PageSizes, addr \in Hints, count \in Counts :
    /\ own[k].state # "live"
    /\ \A j \in Slots : j < k => own[j].state = "live"
    /\ ak_page_requestPages(k, page_size, addr, count)

ReturnPages ==
  \E k \in Slots, page_size \in PageSizes :
    ak_page_returnPages(k, page_size)

Next == RequestPages \/ ReturnPages

Spec == Init /\ [][Next]_vars

NextAlloc == CallAlloc \/ CallAllocT \/ CallResize \/ CallResizeT \/ CallFree

SpecAlloc == Init /\ [][NextAlloc]_vars

\* ------------------------------------------------------------ properties
Product(page_size, count) == page_size * count

Live(k) == own[k].state = "live"

\* the byte range [start, start + pageSize * count) of the chunk in slot k
ChunkRange(k) ==
  {a \in 0..(2 * AddrSpace) :
     /\ chunks[k].start <= a
     /\ a < chunks[k].start + Product(own[k].page_size, chunks[k].count)}

\* C1: a request whose product pageSize * count exceeds SIZE_MAX returns the
\* null/zero-count chunk and makes no OS call (the mapping state is
\* unchanged); a request whose product fits is not rejected by the check and
\* the length passed to the OS is the exact product.
C1_OverflowGuard ==
  last.op = "request" =>
    IF Product(last.page_size, last.count) > SIZE_MAX
    THEN /\ chunks[last.slot] = ZeroChunk
         /\ last.oscall.fn = "none"
         /\ mapped = last.before
    ELSE /\ last.oscall.fn # "none"
         /\ last.oscall.length = Product(last.page_size, last.count)

C1_Witness ==
  /\ last.op = "request"
  /\ Product(last.page_size, last.count) > SIZE_MAX
  /\ last.count < SIZE_MAX
  /\ mapped # {}

\* C2: success is all-or-nothing: a returned chunk with a non-null start has
\* exactly the requested count, and the OS call succeeded for exactly
\* pageSize * count bytes, all of which are mapped from start on.
C2_AllOrNothing ==
  (last.op = "request" /\ chunks[last.slot].start # Null) =>
    /\ chunks[last.slot].count = last.count
    /\ last.oscall.ok
    /\ last.oscall.length = Product(last.page_size, last.count)
    /\ PagesCovering(chunks[last.slot].start,
                     Product(last.page_size, last.count)) \subseteq mapped
    /\ PagesCovering(chunks[last.slot].start,
                     Product(last.page_size, last.count)) # {}

C2_Witness ==
  /\ last.op = "request"
  /\ chunks[last.slot].start # Null
  /\ chunks[last.slot].count = 2
  /\ last.page_size = PageBytes

\* C3: when the OS reservation call fails, the request returns the
\* null/zero-count chunk, on the mmap branch and on the VirtualAlloc branch.
C3_OsFailureZeroChunk ==
  (last.op = "request" /\ last.oscall.fn # "none" /\ ~last.oscall.ok) =>
    chunks[last.slot] = ZeroChunk

\* C4: a return has two outcomes: the OS release succeeds, start is cleared
\* and the result is non-zero; or the OS release fails, the result is 0 and
\* start and count are as before the call.
C4_ReturnOutcomes ==
  last.op = "return" =>
    IF last.oscall.ok
    THEN /\ last.res # 0
         /\ chunks[last.slot].start = Null
    ELSE /\ last.res = 0
         /\ chunks[last.slot] = last.prior

C4_Witness ==
  /\ last.op = "return"
  /\ ~last.oscall.ok
  /\ last.prior.start # Null
  /\ chunks[last.slot] = last.prior

\* C5: in every reachable state every chunk has start null if and only if
\* its count is 0.
C5_NullIffZeroCount ==
  \A k \in Slots : (chunks[k].start = Null) <=> (chunks[k].count = 0)

\* C6: a request with a non-null addressHint returns a chunk that starts at
\* exactly addressHint, or the null/zero-count chunk.
C6_FixedPlacement ==
  (last.op = "request" /\ last.addr # Null) =>
    \/ chunks[last.slot].start = last.addr
    \/ chunks[last.slot] = ZeroChunk

\* C7: a successful request immediately followed by the return of the chunk
\* it produced, with the same pageSize: the release succeeds, start is null
\* afterwards and the set of mapped memory is what it was before the request.
C7_RoundTrip ==
  (last.op = "return" /\ last.roundtrip) =>
    /\ last.res # 0
    /\ chunks[last.slot].start = Null
    /\ mapped = last.rtBefore

\* C9: the address ranges of any two chunks that were reserved and are not
\* yet released are disjoint.
C9_LiveChunksDisjoint ==
  \A j \in Slots, k \in Slots :
    (j # k /\ Live(j) /\ Live(k)) => ChunkRange(j) \cap ChunkRange(k) = {}

\* C10: once a return has succeeded on a chunk, a later return on that same
\* chunk gives 0 and releases no memory.
C10_SingleRelease ==
  (last.op = "return" /\ last.wasReleased /\ last.prior.start = Null) =>
    /\ last.res = 0
    /\ mapped = last.before

\* C8: ak_alloc, ak_resize and ak_free invoke the alloc, resize and free
\* capability of the instance pAlloc they are applied to, pass pAlloc as the
\* first argument and forward address, size, align and count unchanged.
C8_Dispatch ==
  dispatch.call.macro # "none" =>
    /\ dispatch.call.fn.inst = dispatch.call.pAlloc
    /\ dispatch.call.self = dispatch.call.pAlloc
    /\ dispatch.call.fn.cap = (IF dispatch.call.macro = "ak_alloc" THEN "alloc"
                               ELSE IF dispatch.call.macro = "ak_resize" THEN "resize"
                               ELSE "free")
    /\ dispatch.call.addr = dispatch.given.addr
    /\ dispatch.call.size = dispatch.given.size
    /\ dispatch.call.align = dispatch.given.align
    /\ dispatch.call.count = dispatch.given.count

====
